---- MODULE Spec2Model ----
(***************************************************************************)
(* Forecast aggregation engine of weather-api.                             *)
(*                                                                         *)
(* WeatherService.FetchForecasts fans one request out to every configured  *)
(* repository, one goroutine per repository, and folds the outcomes into a *)
(* map keyed by repository name.  Three variants of the service are       *)
(* modelled, selected by the variable `variant`:                           *)
(*   "mutex" : internal/services/weather/weather.go (results map guarded   *)
(*             by a sync.Mutex, wg.Wait in the caller)                     *)
(*   "chan"  : the channel variant (unbuffered resultsChan, a closer       *)
(*             goroutine doing wg.Wait and close, caller ranges over it)   *)
(*   "omit"  : the variant that leaves a failed repository out of the map  *)
(*             and fails when the map stays empty (SpecOmit only)          *)
(* The HTTP handler in front of the service (handleWeatherCall), the       *)
(* provider adapters behind it (FetchForecast of the repositories) and the *)
(* loading of the configuration (FileConfigProvider.Load) are modelled by  *)
(* their own specifications further down.                                  *)
(***************************************************************************)
EXTENDS Integers, Sequences, FiniteSets, TLC

\* ---------------------------------------------------------------- bounds
MaxRepos == 3

\* repositories of a service that is called twice in a row
MaxReposTwice == 2

\* mock repositories of a service called with a cancellable context
MaxMocks == 2

\* ------------------------------------------------------------- constants
Variants == {"mutex", "chan"}

\* names a configuration file may give to an entry of weather_apis
ApiNames == {"open-meteo", "weatherapi", "unknown"}

\* the forecast sequences a successful FetchForecast may return
Forecasts == {<<1>>, <<2>>}

\* ------------------------------------------------------------- variables
VARIABLES
    variant,      \* which FetchForecasts is running
    repos,        \* s.repos: sequence of [name, ok, data]
    mpc,          \* position of the calling goroutine
    next,         \* number of loop iterations of `for _, repo := range s.repos` done
    gpc,          \* position of each provider goroutine
    local,        \* forecast, err of each provider goroutine
    mu,           \* sync.Mutex: 0 when free, else the index of the holder
    wg,           \* sync.WaitGroup counter
    results,      \* the results map
    cpc,          \* position of the closer goroutine (channel variant)
    closed,       \* resultsChan has been closed
    ret,          \* what FetchForecasts returned
    ctx,          \* the context handed to FetchForecasts: "live" or "cancelled"
    calls,        \* number of FetchForecast invocations of each repository
    callNo,       \* 1 during the first call of FetchForecasts, 2 during the second
    first,        \* what the first call returned, once a second call has begun
    \* --- the HTTP handler
    hvariant,     \* which handleWeatherCall is running
    query,        \* the query parameters lat, lon, days of the request
    hpc,          \* position of the handler
    status,       \* HTTP status of the response, 0 before it is written
    fetchArgs,    \* arguments of the handler's calls of FetchForecasts, in order
    \* --- the reduction of sub-daily samples
    samples,      \* response.List given to dailyTemperaturesWeatherAPI
    reduced,      \* what dailyTemperaturesWeatherAPI returned
    rpc,          \* position of the reduction
    \* --- a provider adapter's FetchForecast
    akind,        \* which adapter is running
    client,       \* the HTTPClient the adapter was built with
    upstream,     \* what the upstream answers to a request
    window,       \* the forecastWindow argument
    apc,          \* position of the adapter
    doCalls,      \* number of calls of httpClient.Do
    aret,         \* what FetchForecast returned
    \* --- loading the configuration
    env,          \* the environment variables
    yamlFile,     \* the configuration file, if any
    config,       \* the Config being loaded
    lpc           \* position of FileConfigProvider.Load

hvars == <<hvariant, query, hpc, status, fetchArgs>>
pvars == <<samples, reduced, rpc>>
avars == <<akind, client, upstream, window, apc, doCalls, aret>>
cvars == <<env, yamlFile, config, lpc>>

\* what a provider goroutine never touches: the call's arguments and
\* history, and the state of the other components
frame == <<ctx, callNo, first, hvars, pvars, avars, cvars>>

svcvars == <<variant, repos, mpc, next, gpc, local, mu, wg, results, cpc, closed, ret,
             ctx, calls, callNo, first>>

vars == <<svcvars, hvars, pvars, avars, cvars>>

\* ---------------------------------------------------------------- helpers
BoundedSeq(S, n) == UNION {[1..k -> S] : k \in 0..n}

EmptyMap == [x \in {} |-> <<>>]

\* results[k] = v on a Go map
Put(m, k, v) == [x \in (DOMAIN m) \cup {k} |-> IF x = k THEN v ELSE m[x]]

N == Len(repos)
Idx == 1..N

\* repo.Name()
Name(i) == repos[i].name

NoLocal == [err |-> FALSE, forecast |-> <<>>]
NoRet == [isNil |-> TRUE, m |-> EmptyMap, err |-> FALSE]

\* InitWeatherRepositories: one repository per known entry, in order;
\* entries with an unknown name are skipped; nothing removes duplicates.
\* OpenMeteoRepository.Name() is "open-meteo", WeatherAPIRepository.Name()
\* is "weatherapi".
InitWeatherRepositories(cfg) ==
    SelectSeq(cfg, LAMBDA api : api \in {"open-meteo", "weatherapi"})

\* repo.FetchForecast(ctx, lat, lon, forecastWindow) of repository i.
\* In the channel variant a repository returns a models.Forecast whose
\* RepositoryName field the adapter sets to its own Name().
FetchForecast(i) ==
    IF variant = "chan"
    THEN [err |-> ~repos[i].ok,
          forecast |-> IF repos[i].ok
                       THEN [RepositoryName |-> Name(i), ForecastData |-> repos[i].data]
                       ELSE [RepositoryName |-> "", ForecastData |-> <<>>]]
    ELSE [err |-> ~repos[i].ok,
          forecast |-> IF repos[i].ok THEN repos[i].data ELSE <<>>]

\* no request is being handled
HandlerIdle ==
    /\ hvariant = "none"
    /\ query = [lat |-> "", lon |-> "", days |-> ""]
    /\ hpc = "idle"
    /\ status = 0
    /\ fetchArgs = <<>>

NoReduced == [err |-> FALSE, temps |-> <<>>]

\* no reduction is running
ReduceIdle ==
    /\ samples = <<>>
    /\ reduced = NoReduced
    /\ rpc = "idle"

NoARet == [err |-> FALSE, panic |-> FALSE, data |-> <<>>]

\* no adapter is running
AdapterIdle ==
    /\ akind = "none"
    /\ client = [respectsCtx |-> TRUE]
    /\ upstream = [response |-> "200", list |-> <<>>, tempLen |-> 0]
    /\ window = 0
    /\ apc = "idle"
    /\ doCalls = 0
    /\ aret = NoARet

\* an environment variable that is not set, a key the file does not hold
Unset == "<unset>"

\* the configuration is not being loaded
ConfigIdle ==
    /\ env = [k \in {} |-> Unset]
    /\ yamlFile = [found |-> FALSE, parses |-> FALSE, keys |-> [k \in {} |-> Unset]]
    /\ config = [f \in {} |-> ""]
    /\ lpc = "idle"

\* ------------------------------------------------------------------ Init
\* NewWeatherService(InitWeatherRepositories(cfg), l), then the first
\* statements of FetchForecasts: results := make(map), mu, wg.
Init ==
    /\ variant \in Variants
    /\ \E cfg \in BoundedSeq(ApiNames, MaxRepos) :
         LET names == InitWeatherRepositories(cfg) IN
         \E oks \in [1..Len(names) -> BOOLEAN], datas \in [1..Len(names) -> Forecasts] :
            repos = [i \in 1..Len(names) |->
                        [name |-> names[i], ok |-> oks[i],
                         data |-> IF oks[i] THEN datas[i] ELSE <<>>]]
    /\ mpc = "loop"
    /\ next = 0
    /\ gpc = [i \in 1..Len(repos) |-> "unspawned"]
    /\ local = [i \in 1..Len(repos) |-> NoLocal]
    /\ mu = 0
    /\ wg = 0
    /\ results = EmptyMap
    /\ cpc = "unspawned"
    /\ closed = FALSE
    /\ ret = NoRet
    /\ ctx = "live"
    /\ calls = [i \in 1..Len(repos) |-> 0]
    /\ callNo = 1
    /\ first = NoRet
    /\ HandlerIdle
    /\ ReduceIdle
    /\ AdapterIdle
    /\ ConfigIdle

\* --------------------------------------------------- the calling goroutine
\* one iteration of the loop: wg.Add(1); go func(repo){...}(repo)
Spawn ==
    /\ mpc = "loop"
    /\ next < N
    /\ next' = next + 1
    /\ wg' = wg + 1
    /\ gpc' = [gpc EXCEPT ![next + 1] = "fetch"]
    /\ UNCHANGED <<frame, calls, variant, repos, mpc, local, mu, results, cpc, closed, ret>>

\* the loop is over: the mutex variant goes to wg.Wait(), the channel
\* variant starts the closer goroutine and enters the range loop
LoopEnd ==
    /\ mpc = "loop"
    /\ next = N
    /\ IF variant = "chan"
       THEN /\ mpc' = "range"
            /\ cpc' = "wait"
       ELSE /\ mpc' = "wait"
            /\ cpc' = cpc
    /\ UNCHANGED <<frame, calls, variant, repos, next, gpc, local, mu, wg, results, closed, ret>>

\* wg.Wait() that does not block
WgWaitReady_NoWait == TRUE

\* wg.Wait() that returns one Done too early
WgWaitReady_OffByOne == wg <= 1

\* wg.Wait() returns once the counter is zero
WgWaitReady == wg = 0

Wait ==
    /\ variant = "mutex"
    /\ mpc = "wait"
    /\ WgWaitReady
    /\ mpc' = "check"
    /\ UNCHANGED <<frame, calls, variant, repos, next, gpc, local, mu, wg, results, cpc, closed, ret>>

\* an empty map reported as an error
ReturnValue_ErrOnEmpty(m) ==
    IF Cardinality(DOMAIN m) = 0
    THEN [isNil |-> TRUE, m |-> EmptyMap, err |-> TRUE]
    ELSE [isNil |-> FALSE, m |-> m, err |-> FALSE]

\* a provider's error handed on as the error of the call
ReturnValue_PropagateErr(m) ==
    IF \E i \in Idx : local[i].err
    THEN [isNil |-> TRUE, m |-> EmptyMap, err |-> TRUE]
    ELSE [isNil |-> FALSE, m |-> m, err |-> FALSE]

\* if len(results) == 0 { return nil, nil }; return results, nil
ReturnValue(m) ==
    IF Cardinality(DOMAIN m) = 0
    THEN [isNil |-> TRUE, m |-> EmptyMap, err |-> FALSE]
    ELSE [isNil |-> FALSE, m |-> m, err |-> FALSE]

Return ==
    /\ variant = "mutex"
    /\ mpc = "check"
    /\ ret' = ReturnValue(results)
    /\ mpc' = "returned"
    /\ UNCHANGED <<frame, calls, variant, repos, next, gpc, local, mu, wg, results, cpc, closed>>

\* ------------------------------------------------- the provider goroutines
\* a repository of the service tests: MockRepository{name, shouldFail,
\* shouldDelay, forecastData}
IsMock(i) == "shouldDelay" \in DOMAIN repos[i]

\* MockRepository.FetchForecast: with shouldDelay it selects on ctx.Done()
\* and time.After(100ms); a cancelled context makes ctx.Done() ready, and
\* select may take either case once the timer has fired as well. Then
\* shouldFail gives an error, otherwise forecastData is returned.
MockFetchForecast(i) ==
    LET failed == [err |-> TRUE, forecast |-> <<>>]
        after  == IF repos[i].shouldFail
                  THEN failed
                  ELSE [err |-> FALSE, forecast |-> repos[i].forecastData]
    IN  IF repos[i].shouldDelay /\ ctx = "cancelled"
        THEN {failed, after}
        ELSE {after}

\* the results one invocation of repo.FetchForecast may give
FetchResults(i) == IF IsMock(i) THEN MockFetchForecast(i) ELSE {FetchForecast(i)}

\* a failed invocation tried once more
Fetch_Retry(i) ==
    /\ gpc[i] = "fetch"
    /\ \E r \in FetchResults(i) :
         /\ local' = [local EXCEPT ![i] = r]
         /\ gpc' = [gpc EXCEPT ![i] =
                       IF r.err /\ calls[i] = 0 THEN "fetch"
                       ELSE IF variant = "chan" THEN "send" ELSE "lock"]
    /\ calls' = [calls EXCEPT ![i] = @ + 1]
    /\ UNCHANGED <<frame, variant, repos, mpc, next, mu, wg, results, cpc, closed, ret>>

\* forecast, err := repo.FetchForecast(ctx, lat, lon, forecastWindow)
Fetch(i) ==
    /\ gpc[i] = "fetch"
    /\ \E r \in FetchResults(i) : local' = [local EXCEPT ![i] = r]
    /\ calls' = [calls EXCEPT ![i] = @ + 1]
    /\ gpc' = [gpc EXCEPT ![i] = IF variant = "chan" THEN "send" ELSE "lock"]
    /\ UNCHANGED <<frame, variant, repos, mpc, next, mu, wg, results, cpc, closed, ret>>

\* mu.Lock() that never blocks
MuLockReady_NoBlock == TRUE

\* mu.Lock() blocks until the mutex is free
MuLockReady == mu = 0

Lock(i) ==
    /\ variant = "mutex"
    /\ gpc[i] = "lock"
    /\ MuLockReady
    /\ mu' = i
    /\ gpc' = [gpc EXCEPT ![i] = "write"]
    /\ UNCHANGED <<frame, calls, variant, repos, mpc, next, local, wg, results, cpc, closed, ret>>

\* the value a provider goroutine stores under repo.Name():
\* []models.Response{} on the error path, forecast otherwise
Stored(i) == IF local[i].err THEN <<>> ELSE local[i].forecast

\* the error path returning without a write (omit policy)
Write_Omit(i) ==
    /\ variant = "mutex"
    /\ gpc[i] = "write"
    /\ results' = IF local[i].err THEN results ELSE Put(results, Name(i), Stored(i))
    /\ gpc' = [gpc EXCEPT ![i] = "unlock"]
    /\ UNCHANGED <<frame, calls, variant, repos, mpc, next, local, mu, wg, cpc, closed, ret>>

\* results[repo.Name()] = ...
Write(i) ==
    /\ variant = "mutex"
    /\ gpc[i] = "write"
    /\ results' = Put(results, Name(i), Stored(i))
    /\ gpc' = [gpc EXCEPT ![i] = "unlock"]
    /\ UNCHANGED <<frame, calls, variant, repos, mpc, next, local, mu, wg, cpc, closed, ret>>

\* mu.Unlock()
Unlock(i) ==
    /\ variant = "mutex"
    /\ gpc[i] = "unlock"
    /\ mu' = 0
    /\ gpc' = [gpc EXCEPT ![i] = "exit"]
    /\ UNCHANGED <<frame, calls, variant, repos, mpc, next, local, wg, results, cpc, closed, ret>>

\* wg.Done() called at the end of the function instead of deferred: the
\* early return of the error path skips it
Done_NotDeferred(i) ==
    /\ gpc[i] = "exit"
    /\ wg' = IF local[i].err THEN wg ELSE wg - 1
    /\ gpc' = [gpc EXCEPT ![i] = "done"]
    /\ UNCHANGED <<frame, calls, variant, repos, mpc, next, local, mu, results, cpc, closed, ret>>

\* the deferred wg.Done() when the goroutine function returns
Done(i) ==
    /\ gpc[i] = "exit"
    /\ wg' = wg - 1
    /\ gpc' = [gpc EXCEPT ![i] = "done"]
    /\ UNCHANGED <<frame, calls, variant, repos, mpc, next, local, mu, results, cpc, closed, ret>>

\* ------------------------------------------------------- channel variant
\* the placeholder built without the repository's name
Message_NoName(i) ==
    IF local[i].err
    THEN [RepositoryName |-> "", ForecastData |-> <<>>]
    ELSE local[i].forecast

\* the message a provider goroutine sends on resultsChan
Message(i) ==
    IF local[i].err
    THEN [RepositoryName |-> Name(i), ForecastData |-> <<>>]
    ELSE local[i].forecast

\* resultsChan is unbuffered: the send `resultsChan <- ...` of goroutine i
\* and the receive of the caller's range loop happen together; the body of
\* the loop stores the message under its RepositoryName
Recv(i) ==
    /\ variant = "chan"
    /\ mpc = "range"
    /\ gpc[i] = "send"
    /\ ~closed
    /\ results' = Put(results, Message(i).RepositoryName, Message(i))
    /\ gpc' = [gpc EXCEPT ![i] = "exit"]
    /\ UNCHANGED <<frame, calls, variant, repos, mpc, next, local, mu, wg, cpc, closed, ret>>

\* closer goroutine: wg.Wait()
CloserWait ==
    /\ variant = "chan"
    /\ cpc = "wait"
    /\ WgWaitReady
    /\ cpc' = "close"
    /\ UNCHANGED <<frame, calls, variant, repos, mpc, next, gpc, local, mu, wg, results, closed, ret>>

\* a closer goroutine that returns after wg.Wait() without closing
CloserClose_Missing ==
    /\ variant = "chan"
    /\ cpc = "close"
    /\ cpc' = "done"
    /\ UNCHANGED <<frame, calls, variant, repos, mpc, next, gpc, local, mu, wg, results, closed, ret>>

\* closer goroutine: close(resultsChan)
CloserClose ==
    /\ variant = "chan"
    /\ cpc = "close"
    /\ closed' = TRUE
    /\ cpc' = "done"
    /\ UNCHANGED <<frame, calls, variant, repos, mpc, next, gpc, local, mu, wg, results, ret>>

\* the range loop ends when the channel is closed; return results, nil
RangeEnd ==
    /\ variant = "chan"
    /\ mpc = "range"
    /\ closed
    /\ ret' = [isNil |-> FALSE, m |-> results, err |-> FALSE]
    /\ mpc' = "returned"
    /\ UNCHANGED <<frame, calls, variant, repos, next, gpc, local, mu, wg, results, cpc, closed>>

\* ------------------------------------------------------------------ Next
Next ==
    \/ Spawn
    \/ LoopEnd
    \/ Wait
    \/ Return
    \/ \E i \in Idx : Fetch(i)
    \/ \E i \in Idx : Lock(i)
    \/ \E i \in Idx : Write(i)
    \/ \E i \in Idx : Unlock(i)
    \/ \E i \in Idx : Done(i)
    \/ \E i \in Idx : Recv(i)
    \/ CloserWait
    \/ CloserClose
    \/ RangeEnd

Spec == Init /\ [][Next]_vars

\* ------------------------------------------------- two calls in a row
\* the caller calls FetchForecasts again on the same service with the same
\* arguments; everything but s.repos is local to a call and starts afresh
SecondCall ==
    /\ mpc = "returned"
    /\ callNo = 1
    /\ callNo' = 2
    /\ first' = ret
    /\ mpc' = "loop"
    /\ next' = 0
    /\ gpc' = [i \in Idx |-> "unspawned"]
    /\ local' = [i \in Idx |-> NoLocal]
    /\ mu' = 0
    /\ wg' = 0
    /\ results' = EmptyMap
    /\ cpc' = "unspawned"
    /\ closed' = FALSE
    /\ ret' = NoRet
    /\ calls' = [i \in Idx |-> 0]
    /\ UNCHANGED <<variant, repos, ctx, hvars, pvars, avars, cvars>>

InitTwice == Init /\ N <= MaxReposTwice

NextTwice ==
    \/ Next
    \/ SecondCall

SpecTwice == InitTwice /\ [][NextTwice]_vars

\* ------------------------------------------------ the channel variant alone
MaxReposChan == 2

InitChan == Init /\ variant = "chan" /\ N <= MaxReposChan

\* the steps of the channel variant
NextChan ==
    \/ Spawn
    \/ LoopEnd
    \/ \E i \in Idx : Fetch(i)
    \/ \E i \in Idx : Recv(i)
    \/ \E i \in Idx : Done(i)
    \/ CloserWait
    \/ CloserClose
    \/ RangeEnd

\* the Go scheduler lets every runnable goroutine run
SpecChan == InitChan /\ [][NextChan]_vars /\ WF_vars(NextChan)

\* ------------------------------------------------------ the omit variant
\* FetchForecasts of internal/models/WeatherData.go: a provider goroutine
\* whose FetchForecast fails returns without writing, and a call without
\* any result is an error
InitOmit ==
    /\ variant = "omit"
    /\ \E cfg \in BoundedSeq(ApiNames, MaxRepos) :
         LET names == InitWeatherRepositories(cfg) IN
         \E oks \in [1..Len(names) -> BOOLEAN], datas \in [1..Len(names) -> Forecasts] :
            repos = [i \in 1..Len(names) |->
                        [name |-> names[i], ok |-> oks[i],
                         data |-> IF oks[i] THEN datas[i] ELSE <<>>]]
    /\ mpc = "loop"
    /\ next = 0
    /\ gpc = [i \in 1..Len(repos) |-> "unspawned"]
    /\ local = [i \in 1..Len(repos) |-> NoLocal]
    /\ mu = 0
    /\ wg = 0
    /\ results = EmptyMap
    /\ cpc = "unspawned"
    /\ closed = FALSE
    /\ ret = NoRet
    /\ ctx = "live"
    /\ calls = [i \in 1..Len(repos) |-> 0]
    /\ callNo = 1
    /\ first = NoRet
    /\ HandlerIdle
    /\ ReduceIdle
    /\ AdapterIdle
    /\ ConfigIdle

\* the error path that goes on to store the (empty) forecast
OmitFetch_StoreOnError(i) ==
    /\ variant = "omit"
    /\ gpc[i] = "fetch"
    /\ local' = [local EXCEPT ![i] = FetchForecast(i)]
    /\ calls' = [calls EXCEPT ![i] = @ + 1]
    /\ gpc' = [gpc EXCEPT ![i] = "lock"]
    /\ UNCHANGED <<frame, variant, repos, mpc, next, mu, wg, results, cpc, closed, ret>>

\* forecast, err := repo.FetchForecast(...); if err != nil { ...; return }
OmitFetch(i) ==
    /\ variant = "omit"
    /\ gpc[i] = "fetch"
    /\ local' = [local EXCEPT ![i] = FetchForecast(i)]
    /\ calls' = [calls EXCEPT ![i] = @ + 1]
    /\ gpc' = [gpc EXCEPT ![i] = IF FetchForecast(i).err THEN "exit" ELSE "lock"]
    /\ UNCHANGED <<frame, variant, repos, mpc, next, mu, wg, results, cpc, closed, ret>>

\* mu.Lock()
OmitLock(i) ==
    /\ variant = "omit"
    /\ gpc[i] = "lock"
    /\ MuLockReady
    /\ mu' = i
    /\ gpc' = [gpc EXCEPT ![i] = "write"]
    /\ UNCHANGED <<frame, calls, variant, repos, mpc, next, local, wg, results, cpc, closed, ret>>

\* results[repo.Name()] = forecast
OmitWrite(i) ==
    /\ variant = "omit"
    /\ gpc[i] = "write"
    /\ results' = Put(results, Name(i), local[i].forecast)
    /\ gpc' = [gpc EXCEPT ![i] = "unlock"]
    /\ UNCHANGED <<frame, calls, variant, repos, mpc, next, local, mu, wg, cpc, closed, ret>>

\* mu.Unlock()
OmitUnlock(i) ==
    /\ variant = "omit"
    /\ gpc[i] = "unlock"
    /\ mu' = 0
    /\ gpc' = [gpc EXCEPT ![i] = "exit"]
    /\ UNCHANGED <<frame, calls, variant, repos, mpc, next, local, wg, results, cpc, closed, ret>>

\* wg.Wait()
OmitWait ==
    /\ variant = "omit"
    /\ mpc = "wait"
    /\ WgWaitReady
    /\ mpc' = "check"
    /\ UNCHANGED <<frame, calls, variant, repos, next, gpc, local, mu, wg, results, cpc, closed, ret>>

\* if len(results) == 0 { return nil, errors.New("no results found") };
\* return results, nil
OmitReturnValue(m) ==
    IF Cardinality(DOMAIN m) = 0
    THEN [isNil |-> TRUE, m |-> EmptyMap, err |-> TRUE]
    ELSE [isNil |-> FALSE, m |-> m, err |-> FALSE]

OmitReturn ==
    /\ variant = "omit"
    /\ mpc = "check"
    /\ ret' = OmitReturnValue(results)
    /\ mpc' = "returned"
    /\ UNCHANGED <<frame, calls, variant, repos, next, gpc, local, mu, wg, results, cpc, closed>>

NextOmit ==
    \/ Spawn
    \/ LoopEnd
    \/ OmitWait
    \/ OmitReturn
    \/ \E i \in Idx : OmitFetch(i)
    \/ \E i \in Idx : OmitLock(i)
    \/ \E i \in Idx : OmitWrite(i)
    \/ \E i \in Idx : OmitUnlock(i)
    \/ \E i \in Idx : Done(i)

SpecOmit == InitOmit /\ [][NextOmit]_vars

\* ------------------------------------- a call with a cancellable context
\* the service of weather.go over mock repositories, called with a live or
\* an already cancelled context
InitCancel ==
    /\ variant = "mutex"
    /\ ctx \in {"live", "cancelled"}
    /\ repos \in BoundedSeq([name : {"delayed-repo"},
                             shouldFail : BOOLEAN,
                             shouldDelay : BOOLEAN,
                             forecastData : {<<>>, <<1>>}], MaxMocks)
    /\ mpc = "loop"
    /\ next = 0
    /\ gpc = [i \in 1..Len(repos) |-> "unspawned"]
    /\ local = [i \in 1..Len(repos) |-> NoLocal]
    /\ mu = 0
    /\ wg = 0
    /\ results = EmptyMap
    /\ cpc = "unspawned"
    /\ closed = FALSE
    /\ ret = NoRet
    /\ calls = [i \in 1..Len(repos) |-> 0]
    /\ callNo = 1
    /\ first = NoRet
    /\ HandlerIdle
    /\ ReduceIdle
    /\ AdapterIdle
    /\ ConfigIdle

\* the steps of the mutex variant
NextMutex ==
    \/ Spawn
    \/ LoopEnd
    \/ Wait
    \/ Return
    \/ \E i \in Idx : Fetch(i)
    \/ \E i \in Idx : Lock(i)
    \/ \E i \in Idx : Write(i)
    \/ \E i \in Idx : Unlock(i)
    \/ \E i \in Idx : Done(i)

\* the Go scheduler lets every runnable goroutine run
SpecCancel == InitCancel /\ [][NextMutex]_vars /\ WF_vars(NextMutex)

\* ======================================================= the HTTP handler
\* GET /weather.  Two variants of handleWeatherCall are modelled, selected
\* by `hvariant`:
\*   "validate" : internal/controllers/http/v1/handle.go (validateParameters)
\*   "inline"   : the handler that validates inline and falls back to the
\*                default day count
defaultForecastWindow == 5
maxForecastWindow == 5
maxForecastWindowInline == 14
maxLatitude == 90
maxLongitude == 180
minLatitude == -90
minLongitude == -180

HandlerVariants == {"validate", "inline"}

\* the query strings a request may carry; "" is an absent parameter
LatStrings == {"", "abc", "NaN", "-91", "-90", "0", "90", "91"}
LonStrings == {"", "abc", "NaN", "-181", "-180", "0", "180", "181"}
DaysStrings == {"", "abc", "-1", "0", "1", "5", "6", "14", "15"}

\* the decimal integers among the query strings
IntOf(str) ==
    CASE str = "-181" -> -181
      [] str = "-180" -> -180
      [] str = "-91"  -> -91
      [] str = "-90"  -> -90
      [] str = "-1"   -> -1
      [] str = "0"    -> 0
      [] str = "1"    -> 1
      [] str = "5"    -> 5
      [] str = "6"    -> 6
      [] str = "14"   -> 14
      [] str = "15"   -> 15
      [] str = "90"   -> 90
      [] str = "91"   -> 91
      [] str = "180"  -> 180
      [] str = "181"  -> 181
      [] OTHER        -> 0

IsDecimal(str) == str \notin {"", "abc", "NaN"}

\* strconv.ParseFloat(str, 64): a number, the value NaN for "NaN", or an error
ParseFloat(str) ==
    IF str = "NaN" THEN [err |-> FALSE, nan |-> TRUE, v |-> 0]
    ELSE IF IsDecimal(str) THEN [err |-> FALSE, nan |-> FALSE, v |-> IntOf(str)]
    ELSE [err |-> TRUE, nan |-> FALSE, v |-> 0]

\* strconv.Atoi(str): an int or an error
Atoi(str) ==
    IF IsDecimal(str) THEN [err |-> FALSE, v |-> IntOf(str)]
    ELSE [err |-> TRUE, v |-> 0]

\* float64 comparisons f < k and f > k: false when f is NaN
FLess(f, k) == ~f.nan /\ f.v < k
FGreater(f, k) == ~f.nan /\ f.v > k

ValidationError == [err |-> TRUE, lat |-> ParseFloat("0"), lon |-> ParseFloat("0"), days |-> 0]

\* validateParameters that lets an out-of-range day count through
validateParameters_NoDaysRange(q) ==
    LET lat == ParseFloat(q.lat)
        lon == ParseFloat(q.lon)
        days == Atoi(q.days)
    IN  IF q.lat = "" \/ q.lon = "" \/ lat.err \/ lon.err THEN ValidationError
        ELSE IF FLess(lat, minLatitude) \/ FGreater(lat, maxLatitude) THEN ValidationError
        ELSE IF FLess(lon, minLongitude) \/ FGreater(lon, maxLongitude) THEN ValidationError
        ELSE IF q.days = "" THEN [err |-> FALSE, lat |-> lat, lon |-> lon, days |-> defaultForecastWindow]
        ELSE IF days.err THEN ValidationError
        ELSE [err |-> FALSE, lat |-> lat, lon |-> lon, days |-> days.v]

\* validateParameters(c): lat, lon, days, err
validateParameters(q) ==
    LET lat == ParseFloat(q.lat)
        lon == ParseFloat(q.lon)
        days == Atoi(q.days)
    IN  IF q.lat = "" THEN ValidationError
        ELSE IF q.lon = "" THEN ValidationError
        ELSE IF lat.err THEN ValidationError
        ELSE IF lon.err THEN ValidationError
        ELSE IF FLess(lat, minLatitude) \/ FGreater(lat, maxLatitude) THEN ValidationError
        ELSE IF FLess(lon, minLongitude) \/ FGreater(lon, maxLongitude) THEN ValidationError
        ELSE IF q.days = "" THEN [err |-> FALSE, lat |-> lat, lon |-> lon, days |-> defaultForecastWindow]
        ELSE IF days.err THEN ValidationError
        ELSE IF days.v < 1 \/ days.v > maxForecastWindow THEN ValidationError
        ELSE [err |-> FALSE, lat |-> lat, lon |-> lon, days |-> days.v]

\* the inline checks of the other handler: a bad coordinate is an error, a
\* bad day count is replaced by the default
inlineParameters(q) ==
    LET lat == ParseFloat(q.lat)
        lon == ParseFloat(q.lon)
        days == Atoi(q.days)
    IN  IF q.lat = "" THEN ValidationError
        ELSE IF q.lon = "" THEN ValidationError
        ELSE IF lat.err THEN ValidationError
        ELSE IF FLess(lat, -90) \/ FGreater(lat, 90) THEN ValidationError
        ELSE IF lon.err THEN ValidationError
        ELSE IF FLess(lon, -180) \/ FGreater(lon, 180) THEN ValidationError
        ELSE [err |-> FALSE, lat |-> lat, lon |-> lon,
              days |-> IF q.days # "" /\ ~days.err /\ days.v > 0
                          /\ days.v <= maxForecastWindowInline
                       THEN days.v
                       ELSE defaultForecastWindow]

\* no call of the service is running while a request is handled
ServiceIdle ==
    /\ variant = "none"
    /\ repos = <<>>
    /\ mpc = "idle"
    /\ next = 0
    /\ gpc = <<>>
    /\ local = <<>>
    /\ mu = 0
    /\ wg = 0
    /\ results = EmptyMap
    /\ cpc = "unspawned"
    /\ closed = FALSE
    /\ ret = NoRet
    /\ calls = <<>>
    /\ callNo = 1
    /\ first = NoRet

\* a request arrives
InitHandler ==
    /\ hvariant \in HandlerVariants
    /\ query \in [lat : LatStrings, lon : LonStrings, days : DaysStrings]
    /\ hpc = "recv"
    /\ status = 0
    /\ fetchArgs = <<>>
    /\ ServiceIdle
    /\ ctx = "live"
    /\ ReduceIdle
    /\ AdapterIdle
    /\ ConfigIdle

\* handleWeatherCall up to the call of the service: the parameters are
\* checked; an error is answered with 400 Bad Request, otherwise
\* r.service.FetchForecasts(c.Context(), lat, lon, forecastWindow) is called
CheckParameters ==
    /\ hpc = "recv"
    /\ LET p == IF hvariant = "validate"
                THEN validateParameters(query)
                ELSE inlineParameters(query)
       IN  IF p.err
           THEN /\ status' = 400
                /\ hpc' = "done"
                /\ fetchArgs' = fetchArgs
           ELSE /\ fetchArgs' = Append(fetchArgs,
                        [lat |-> p.lat, lon |-> p.lon, forecastWindow |-> p.days])
                /\ hpc' = "fetch"
                /\ status' = status
    /\ UNCHANGED <<svcvars, pvars, avars, cvars, hvariant, query>>

\* handleWeatherCall after the service has returned: an error is answered
\* with 500 Internal Server Error, a result with 200
Respond ==
    /\ hpc = "fetch"
    /\ \E err \in BOOLEAN : status' = IF err THEN 500 ELSE 200
    /\ hpc' = "done"
    /\ UNCHANGED <<svcvars, pvars, avars, cvars, hvariant, query, fetchArgs>>

NextHandler ==
    \/ CheckParameters
    \/ Respond

SpecHandler == InitHandler /\ [][NextHandler]_vars

\* ============================================ the WeatherAPI reduction
\* dailyTemperaturesWeatherAPI groups the 3-hourly samples of the upstream
\* by calendar date, keeping the least temp_min and the greatest temp_max.
MaxSamples == 3

\* the dt_txt strings of the samples: two times of one day, another day, a
\* string shorter than a date, and a string that is no date
DtTxts == {"2025-07-25 09:00:00", "2025-07-25 18:00:00", "2025-07-26 09:00:00",
           "2025-07", "invalid-date"}
Temps == {1, 2}
Items == [dt : DtTxts, tmin : Temps, tmax : Temps]

\* len(dateStr) < 10
ShorterThanDate(dateStr) == dateStr = "2025-07"

\* dateStr[:10]
DatePart(dateStr) ==
    CASE dateStr = "2025-07-25 09:00:00" -> "2025-07-25"
      [] dateStr = "2025-07-25 18:00:00" -> "2025-07-25"
      [] dateStr = "2025-07-26 09:00:00" -> "2025-07-26"
      [] dateStr = "invalid-date"        -> "invalid-da"
      [] OTHER                           -> dateStr

\* time.Parse("2006-01-02", str): the day, counted from 2025-07-24, or an error
TimeParse(str) ==
    CASE str = "2025-07-25" -> [err |-> FALSE, day |-> 1]
      [] str = "2025-07-26" -> [err |-> FALSE, day |-> 2]
      [] OTHER              -> [err |-> TRUE, day |-> 0]

\* parseDate(dateStr)
parseDate(dateStr) ==
    IF ShorterThanDate(dateStr) THEN [err |-> TRUE, day |-> 0]
    ELSE TimeParse(DatePart(dateStr))

\* FilterByDate that looks at the last entry only
FilterByDate_LastOnly(data, date) ==
    IF Len(data) > 0 /\ data[Len(data)].date = date THEN Len(data) ELSE -1

\* models.FilterByDate(data, date): the first index with that date, or -1
FilterByDate(data, date) ==
    IF \E i \in 1..Len(data) : data[i].date = date
    THEN CHOOSE i \in 1..Len(data) :
            /\ data[i].date = date
            /\ \A j \in 1..(i - 1) : data[j].date # date
    ELSE -1

\* the update that keeps the entry of the date's first sample
UpdateEntry_KeepFirst(entry, item) == entry

\* the update of an existing entry by one more sample of its date
UpdateEntry(entry, item) ==
    [date |-> entry.date,
     tmin |-> IF item.tmin < entry.tmin THEN item.tmin ELSE entry.tmin,
     tmax |-> IF item.tmax > entry.tmax THEN item.tmax ELSE entry.tmax]

\* the loop of dailyTemperaturesWeatherAPI from item k on
RECURSIVE GroupFrom(_, _, _)
GroupFrom(list, k, dailyTemps) ==
    IF k > Len(list) THEN [err |-> FALSE, temps |-> dailyTemps]
    ELSE LET item == list[k]
             d == parseDate(item.dt)
             index == FilterByDate(dailyTemps, d.day)
         IN  IF d.err THEN [err |-> TRUE, temps |-> dailyTemps]
             ELSE IF index = -1
             THEN GroupFrom(list, k + 1,
                      Append(dailyTemps,
                             [date |-> d.day, tmin |-> item.tmin, tmax |-> item.tmax]))
             ELSE GroupFrom(list, k + 1,
                      [dailyTemps EXCEPT ![index] = UpdateEntry(@, item)])

dailyTemperaturesWeatherAPI(list) == GroupFrom(list, 1, <<>>)

\* a list of samples arrives
InitReduce ==
    /\ samples \in BoundedSeq(Items, MaxSamples)
    /\ reduced = NoReduced
    /\ rpc = "call"
    /\ ServiceIdle
    /\ ctx = "live"
    /\ HandlerIdle
    /\ AdapterIdle
    /\ ConfigIdle

\* dailyTemps, err := dailyTemperaturesWeatherAPI(response)
Reduce ==
    /\ rpc = "call"
    /\ reduced' = dailyTemperaturesWeatherAPI(samples)
    /\ rpc' = "done"
    /\ UNCHANGED <<svcvars, hvars, avars, cvars, samples>>

NextReduce == Reduce

SpecReduce == InitReduce /\ [][NextReduce]_vars

\* ===================================================== provider adapters
\* FetchForecast of WeatherAPIRepository and of OpenMeteoRepository: build
\* the request, hand it to the HTTP client, turn the response into days.
MaxItems == 2

\* "weatherapi" and "open-meteo" are the adapters built on HTTPClient;
\* "open-meteo-inline" is the OpenMeteoRepository whose FetchForecast
\* converts the payload in its own loop, "open-meteo-build" the one that
\* converts it with buildForecastFromResponse; both use http.DefaultClient
AdapterKinds == {"weatherapi", "open-meteo", "open-meteo-inline", "open-meteo-build"}

\* what the upstream answers: 200 with a JSON body, 200 with a body that
\* is no JSON, a server error, or nothing at all
Responses == {"200", "200-not-json", "500", "unreachable"}

\* the forecastWindow values the handler can pass
Windows == {1, 2, 3}

\* the `time` strings of an Open-Meteo payload
DateStrs == {"2025-07-25", "2025-07-26", "invalid-date"}
DailyItems == [dt : DateStrs, tmin : Temps, tmax : Temps]

\* the payloads of an adapter: a list of records and, for Open-Meteo, the
\* number of them that the temperature arrays cover
Payloads(kind) ==
    IF kind = "weatherapi"
    THEN {[response |-> r, list |-> l, tempLen |-> Len(l)] :
             r \in Responses, l \in BoundedSeq(Items, MaxItems)}
    ELSE {u \in [response : Responses, list : BoundedSeq(DailyItems, MaxItems),
                 tempLen : 0..MaxItems] : u.tempLen <= Len(u.list)}

\* the `daily` object of an Open-Meteo payload
Daily(resp) ==
    [Time |-> [i \in 1..Len(resp.list) |-> resp.list[i].dt],
     Temperature2mMax |-> [i \in 1..resp.tempLen |-> resp.list[i].tmax],
     Temperature2mMin |-> [i \in 1..resp.tempLen |-> resp.list[i].tmin]]

\* min(len(daily.Time), len(daily.Temperature2mMax), len(daily.Temperature2mMin))
MinLength(daily) ==
    LET a == Len(daily.Time)
        b == Len(daily.Temperature2mMax)
        c == Len(daily.Temperature2mMin)
        ab == IF b < a THEN b ELSE a
    IN  IF c < ab THEN c ELSE ab

\* capacity of a slice grown by append from nil to n elements
RECURSIVE CapAfter(_)
CapAfter(n) ==
    IF n = 0 THEN 0
    ELSE LET c == CapAfter(n - 1)
         IN  IF n <= c THEN c ELSE IF c = 0 THEN 1 ELSE 2 * c

\* dailyTemps[:forecastWindow]: the first entries, zero values up to the
\* capacity, a panic beyond it
SliceTo(dailyTemps, n) ==
    IF n > CapAfter(Len(dailyTemps)) THEN [err |-> FALSE, panic |-> TRUE, data |-> <<>>]
    ELSE [err |-> FALSE, panic |-> FALSE,
          data |-> [i \in 1..n |-> IF i <= Len(dailyTemps) THEN dailyTemps[i]
                                   ELSE [date |-> 0, tmin |-> 0, tmax |-> 0]]]

AdapterError == [err |-> TRUE, panic |-> FALSE, data |-> <<>>]

\* WeatherAPIRepository.FetchForecast after the response has arrived
WeatherAPIResult(resp, forecastWindow) ==
    LET dailyTemps == dailyTemperaturesWeatherAPI(resp.list)
    IN  IF resp.response = "500" THEN AdapterError
        ELSE IF resp.response = "200-not-json" THEN AdapterError
        ELSE IF Len(resp.list) = 0 THEN AdapterError
        ELSE IF dailyTemps.err THEN AdapterError
        ELSE SliceTo(dailyTemps.temps, forecastWindow)

\* createDayForecast(daily, index)
createDayForecast(daily, index) ==
    LET date == TimeParse(daily.Time[index])
    IN  [err |-> date.err, date |-> date.day,
         tmin |-> daily.Temperature2mMin[index],
         tmax |-> daily.Temperature2mMax[index]]

\* dailyTemperaturesOpenMeteo(daily)
dailyTemperaturesOpenMeteo(daily) ==
    LET minLength == MinLength(daily)
    IN  IF \E i \in 1..minLength : createDayForecast(daily, i).err
        THEN [err |-> TRUE, temps |-> <<>>]
        ELSE [err |-> FALSE,
              temps |-> [i \in 1..minLength |->
                            [date |-> createDayForecast(daily, i).date,
                             tmin |-> createDayForecast(daily, i).tmin,
                             tmax |-> createDayForecast(daily, i).tmax]]]

\* OpenMeteoRepository.FetchForecast after the response has arrived
OpenMeteoResult(resp) ==
    LET forecastData == dailyTemperaturesOpenMeteo(Daily(resp))
    IN  IF resp.response = "500" THEN AdapterError
        ELSE IF resp.response = "200-not-json" THEN AdapterError
        ELSE IF Len(Daily(resp).Time) = 0 THEN AdapterError
        ELSE IF forecastData.err THEN AdapterError
        ELSE [err |-> FALSE, panic |-> FALSE, data |-> forecastData.temps]

\* the days of the payload, in its order, without those whose maximum is
\* below their minimum; the date stays the string of the payload
ValidDays(daily, minLength) ==
    SelectSeq([i \in 1..minLength |->
                  [dateStr |-> daily.Time[i],
                   tmin |-> daily.Temperature2mMin[i],
                   tmax |-> daily.Temperature2mMax[i]]],
              LAMBDA e : ~(e.tmax < e.tmin))

\* the inline FetchForecast that fails when no day is left
OpenMeteoInlineResult_ErrOnNoDays(resp) ==
    LET daily == Daily(resp)
        minLength == MinLength(daily)
    IN  IF resp.response = "500" THEN AdapterError
        ELSE IF resp.response = "200-not-json" THEN AdapterError
        ELSE IF Len(daily.Time) = 0 THEN AdapterError
        ELSE IF minLength = 0 THEN AdapterError
        ELSE IF ValidDays(daily, minLength) = <<>> THEN AdapterError
        ELSE [err |-> FALSE, panic |-> FALSE, data |-> ValidDays(daily, minLength)]

\* FetchForecast with the inline loop, after the response has arrived
OpenMeteoInlineResult(resp) ==
    LET daily == Daily(resp)
        minLength == MinLength(daily)
    IN  IF resp.response = "500" THEN AdapterError
        ELSE IF resp.response = "200-not-json" THEN AdapterError
        ELSE IF Len(daily.Time) = 0 THEN AdapterError
        ELSE IF minLength = 0 THEN AdapterError
        ELSE [err |-> FALSE, panic |-> FALSE, data |-> ValidDays(daily, minLength)]

\* hasForecastData(daily)
hasForecastData(daily) == Len(daily.Time) > 0

\* buildForecastFromResponse(daily)
buildForecastFromResponse(daily) ==
    LET minLength == MinLength(daily)
    IN  IF minLength = 0 THEN <<>> ELSE ValidDays(daily, minLength)

\* FetchForecast with buildForecastFromResponse, after the response has arrived
OpenMeteoBuildResult(resp) ==
    IF resp.response = "500" THEN AdapterError
    ELSE IF resp.response = "200-not-json" THEN AdapterError
    ELSE IF ~hasForecastData(Daily(resp)) THEN AdapterError
    ELSE [err |-> FALSE, panic |-> FALSE, data |-> buildForecastFromResponse(Daily(resp))]

\* the adapters that take their HTTP client as a parameter
InjectedClient(kind) == kind \in {"weatherapi", "open-meteo"}

\* FetchForecast is called
InitAdapter ==
    /\ akind \in AdapterKinds
    /\ client \in [respectsCtx : BOOLEAN]
    /\ InjectedClient(akind) \/ client.respectsCtx
    /\ upstream \in Payloads(akind)
    /\ window \in Windows
    /\ ctx \in {"live", "cancelled"}
    /\ apc = "request"
    /\ doCalls = 0
    /\ aret = NoARet
    /\ ServiceIdle
    /\ HandlerIdle
    /\ ReduceIdle
    /\ ConfigIdle

\* http.NewRequestWithContext(ctx, "GET", url, nil): the URL is well formed
\* and the context is only attached to the request
NewRequest ==
    /\ apc = "request"
    /\ apc' = "do"
    /\ UNCHANGED <<svcvars, hvars, pvars, cvars, akind, client, upstream, window, doCalls, aret>>

\* resp, err := httpClient.Do(req): a client that consults the request's
\* context fails when it is cancelled, and every client fails when the
\* upstream cannot be reached; an error ends FetchForecast
Do ==
    /\ apc = "do"
    /\ doCalls' = doCalls + 1
    /\ IF \/ client.respectsCtx /\ ctx = "cancelled"
          \/ upstream.response = "unreachable"
       THEN /\ aret' = AdapterError
            /\ apc' = "done"
       ELSE /\ aret' = aret
            /\ apc' = "response"
    /\ UNCHANGED <<svcvars, hvars, pvars, cvars, akind, client, upstream, window>>

\* the rest of FetchForecast: status, JSON, empty payload, days
Process ==
    /\ apc = "response"
    /\ aret' = CASE akind = "weatherapi" -> WeatherAPIResult(upstream, window)
                 [] akind = "open-meteo" -> OpenMeteoResult(upstream)
                 [] akind = "open-meteo-inline" -> OpenMeteoInlineResult(upstream)
                 [] OTHER -> OpenMeteoBuildResult(upstream)
    /\ apc' = "done"
    /\ UNCHANGED <<svcvars, hvars, pvars, cvars, akind, client, upstream, window, doCalls>>

NextAdapter ==
    \/ NewRequest
    \/ Do
    \/ Process

SpecAdapter == InitAdapter /\ [][NextAdapter]_vars

\* ======================================================== configuration
\* FileConfigProvider.Load: a pass of envconfig.Process for the defaults,
\* the YAML file, and a second pass of envconfig.Process.
\* The fields App.Name and Server.Port carry an environment key and a
\* default in their struct tags; Weather.APIs carries neither.
Fields == {"App.Name", "Server.Port", "Weather.APIs"}

\* the envconfig tag of a field
EnvKey(f) ==
    CASE f = "App.Name"    -> "APP_NAME"
      [] f = "Server.Port" -> "SERVER_PORT"
      [] OTHER             -> Unset

\* the default tag of a field, "" when it has none
DefaultTag(f) ==
    CASE f = "App.Name"    -> "weather-api"
      [] f = "Server.Port" -> "8080"
      [] OTHER             -> ""

\* the yaml path of a field
YamlKey(f) ==
    CASE f = "App.Name"    -> "app.name"
      [] f = "Server.Port" -> "server.port"
      [] OTHER             -> "weather.apis"

EnvKeys == {"APP_NAME", "SERVER_PORT"}
YamlKeys == {"app.name", "server.port", "weather.apis"}

\* the values a variable may be set to, the empty string included
EnvValues(k) == IF k = "APP_NAME" THEN {Unset, "", "env-app"} ELSE {Unset, "", "9090"}

\* the values the file may give a key
YamlValues(k) ==
    CASE k = "app.name"    -> {Unset, "yaml-app"}
      [] k = "server.port" -> {Unset, "9000"}
      [] OTHER             -> {Unset, "open-meteo,weatherapi"}

\* &Config{}
ZeroConfig == [f \in Fields |-> ""]

\* os.LookupEnv(key)
lookupEnv(key) ==
    IF key \in DOMAIN env /\ env[key] # Unset
    THEN [value |-> env[key], ok |-> TRUE]
    ELSE [value |-> "", ok |-> FALSE]

\* envconfig.Process("", config): a field takes the value of its variable
\* when that is set, else its default when it has one, else it is left alone
EnvconfigProcess(c) ==
    [f \in Fields |->
        IF lookupEnv(EnvKey(f)).ok THEN lookupEnv(EnvKey(f)).value
        ELSE IF DefaultTag(f) # "" THEN DefaultTag(f)
        ELSE c[f]]

\* yaml.Unmarshal(configData, config): the keys of the file are set
YamlUnmarshal(c) ==
    [f \in Fields |->
        IF yamlFile.keys[YamlKey(f)] # Unset THEN yamlFile.keys[YamlKey(f)] ELSE c[f]]

\* Load is called
InitConfig ==
    /\ env \in {e \in [EnvKeys -> {Unset, "", "env-app", "9090"}] :
                   \A k \in EnvKeys : e[k] \in EnvValues(k)}
    /\ yamlFile \in
          {y \in [found : BOOLEAN, parses : BOOLEAN,
                  keys : [YamlKeys -> {Unset, "yaml-app", "9000", "open-meteo,weatherapi"}]] :
              /\ \A k \in YamlKeys : y.keys[k] \in YamlValues(k)
              /\ ~y.found => (~y.parses /\ \A k \in YamlKeys : y.keys[k] = Unset)
              /\ ~y.parses => \A k \in YamlKeys : y.keys[k] = Unset}
    /\ config = ZeroConfig
    /\ lpc = "defaults"
    /\ ServiceIdle
    /\ ctx = "live"
    /\ HandlerIdle
    /\ ReduceIdle
    /\ AdapterIdle

\* "Set default values": envconfig.Process("", config)
SetDefaults ==
    /\ lpc = "defaults"
    /\ config' = EnvconfigProcess(config)
    /\ lpc' = "file"
    /\ UNCHANGED <<svcvars, hvars, pvars, avars, env, yamlFile>>

\* p.loadFromFile(config): a missing file is no error, an unparsable one is
loadFromFile ==
    /\ lpc = "file"
    /\ IF ~yamlFile.found
       THEN /\ config' = config
            /\ lpc' = "env"
       ELSE IF ~yamlFile.parses
       THEN /\ config' = config
            /\ lpc' = "failed"
       ELSE /\ config' = YamlUnmarshal(config)
            /\ lpc' = "env"
    /\ UNCHANGED <<svcvars, hvars, pvars, avars, env, yamlFile>>

\* "Override with environment variables again": envconfig.Process("", config)
OverrideWithEnv ==
    /\ lpc = "env"
    /\ config' = EnvconfigProcess(config)
    /\ lpc' = "done"
    /\ UNCHANGED <<svcvars, hvars, pvars, avars, env, yamlFile>>

NextConfig ==
    \/ SetDefaults
    \/ loadFromFile
    \/ OverrideWithEnv

SpecConfig == InitConfig /\ [][NextConfig]_vars

\* ================================================================ claims
Returned == mpc = "returned"

\* the repositories whose FetchForecast succeeds
OkSet == {i \in Idx : repos[i].ok}
NumOk == Cardinality(OkSet)

NameSet == {Name(i) : i \in Idx}
DistinctNames == \A i, j \in Idx : Name(i) = Name(j) => i = j

\* the forecast sequence held by a value of the returned map
Days(v) == IF variant = "chan" THEN v.ForecastData ELSE v

\* FetchForecast of repository i has returned
Resolved(i) == gpc[i] \notin {"unspawned", "fetch"}

\* C1: gather-all. In both variants FetchForecasts returns only after every
\* configured repository's FetchForecast invocation has returned.
C1_GatherAll == Returned => \A i \in Idx : Resolved(i)

C1_Witness ==
    /\ Returned
    /\ N >= 2
    /\ variant = "chan"
    /\ \E i, j \in Idx : repos[i].ok /\ ~repos[j].ok

\* C2: failure isolation. With 0 < K < N successes, the returned map holds
\* for each successful repository exactly the value it returned.
C2_FailureIsolation ==
    (Returned /\ 0 < NumOk /\ NumOk < N) =>
        \A i \in OkSet :
            /\ Name(i) \in DOMAIN ret.m
            /\ Days(ret.m[Name(i)]) = repos[i].data

\* C3 as stated: no success (all fail, or none configured) gives a non-nil
\* error and no aggregate, in the mutex variant.
C3_NoProvidersError ==
    (Returned /\ variant = "mutex" /\ NumOk = 0) => (ret.err /\ ret.isNil)

\* C3 amended: no success gives a nil error; the returned map has no entry
\* when zero repositories are configured and is the non-nil, non-empty map
\* when N >= 1 repositories all fail.
C3_NoSuccessNilError ==
    (Returned /\ variant = "mutex" /\ NumOk = 0) =>
        /\ ~ret.err
        /\ (N = 0 => DOMAIN ret.m = {})
        /\ (N >= 1 => ~ret.isNil /\ DOMAIN ret.m # {})

C3_Witness == Returned /\ variant = "mutex" /\ NumOk = 0 /\ N >= 2

C5_EmptyReposNonNilMap ==
    (Returned /\ variant = "mutex" /\ N = 0) =>
        /\ ~ret.err
        /\ ~ret.isNil
        /\ Cardinality(DOMAIN ret.m) = 0

\* C6: if at least one repository succeeds the call returns a nil error; a
\* repository's error never becomes the error of the call.
C6_SuccessMeansNilError == (Returned /\ NumOk >= 1) => ~ret.err

C6_Witness == Returned /\ NumOk >= 1 /\ NumOk < N /\ variant = "mutex"

\* C7: placeholder policy. For N >= 1 repositories with pairwise distinct
\* names the key set of the returned map is exactly the set of configured
\* names and every failed repository is mapped to an empty sequence.
C7_PlaceholderPolicy ==
    (Returned /\ N >= 1 /\ DistinctNames) =>
        /\ DOMAIN ret.m = NameSet
        /\ \A i \in Idx : ~repos[i].ok => Days(ret.m[Name(i)]) = <<>>

C7_Witness ==
    /\ Returned
    /\ variant = "chan"
    /\ N >= 2
    /\ DistinctNames
    /\ NumOk >= 1
    /\ NumOk < N

\* C8: mutual exclusion. At most one provider goroutine is at the write to
\* the results map, and a goroutine at the write holds the mutex.
C8_MutualExclusion ==
    /\ \A i, j \in Idx : (gpc[i] = "write" /\ gpc[j] = "write") => i = j
    /\ \A i \in Idx : gpc[i] = "write" => mu = i

C8_Witness ==
    \E i, j \in Idx :
        /\ gpc[i] = "write"
        /\ gpc[j] = "lock"
        /\ repos[i].ok
        /\ ~repos[j].ok

\* C9: reads happen after writes. Once wg.Wait has returned in the mutex
\* variant every provider goroutine has written its entry and called
\* wg.Done, so none of them writes to the map any more.
C9_ReadsAfterWrites ==
    (variant = "mutex" /\ mpc \in {"check", "returned"}) =>
        \A i \in Idx : gpc[i] = "done" /\ Name(i) \in DOMAIN results

C9_Witness == variant = "mutex" /\ mpc = "check" /\ N >= 2

\* the map built when the goroutines complete in list order
RECURSIVE InOrder(_)
InOrder(k) ==
    IF k = 0 THEN EmptyMap
    ELSE LET v == IF repos[k].ok THEN repos[k].data ELSE <<>> IN
         Put(InOrder(k - 1), Name(k),
             IF variant = "chan"
             THEN [RepositoryName |-> Name(k), ForecastData |-> v]
             ELSE v)

\* C10: completion-order independence. For any repository list (duplicates
\* of one provider included) and fixed outcomes, the returned map is the
\* same under every interleaving: it is the map of the in-order completion.
C10_OrderIndependence == Returned => ret.m = InOrder(N)

\* C11: exactly once, no retry. One goroutine is started per loop iteration,
\* a repository's FetchForecast has been invoked once exactly when its
\* invocation has resolved and never more than once, and at the return
\* every configured repository has been invoked exactly once.
C11_ExactlyOnce ==
    /\ Cardinality({i \in Idx : gpc[i] # "unspawned"}) = next
    /\ \A i \in Idx : calls[i] = (IF Resolved(i) THEN 1 ELSE 0)
    /\ Returned => (next = N /\ \A i \in Idx : calls[i] = 1)

C11_Witness ==
    /\ Returned
    /\ N >= 2
    /\ \E i \in Idx : ~repos[i].ok /\ calls[i] = 1

\* the case of C12: an already cancelled context and a single repository
\* that delays and has no forecast of its own to give
CancelCase ==
    /\ ctx = "cancelled"
    /\ N = 1
    /\ IsMock(1)
    /\ repos[1].shouldDelay
    /\ repos[1].forecastData = <<>>

\* C12: cancellation never hangs. Called with an already cancelled context
\* and a single delaying repository, FetchForecasts eventually returns, with
\* a nil error and a one-key map whose entry for the repository is empty.
C12_CancelTerminates ==
    CancelCase ~>
        (/\ Returned
         /\ ~ret.err
         /\ ~ret.isNil
         /\ DOMAIN ret.m = {Name(1)}
         /\ ret.m[Name(1)] = <<>>)

C12_Witness == CancelCase /\ Returned /\ local[1].err

\* C13: no cross-provider merging. In the returned map the value under a
\* repository's name is exactly the sequence that repository's own
\* invocation returned (the empty sequence when it failed).
C13_OwnValue ==
    (Returned /\ N >= 1) =>
        \A i \in Idx :
            /\ Name(i) \in DOMAIN ret.m
            /\ Days(ret.m[Name(i)]) = (IF repos[i].ok THEN repos[i].data ELSE <<>>)

\* C15: idempotence. A second call on the same service with the same
\* arguments and the same outcome of every repository returns the same map
\* and the same error as the first.
C15_Idempotence == (callNo = 2 /\ Returned) => ret = first

\* a coordinate string that gives a number within [lo, hi]
InRange(str, lo, hi) ==
    /\ ~ParseFloat(str).err
    /\ ~ParseFloat(str).nan
    /\ lo <= ParseFloat(str).v
    /\ ParseFloat(str).v <= hi

GoodCoordinates ==
    /\ InRange(query.lat, minLatitude, maxLatitude)
    /\ InRange(query.lon, minLongitude, maxLongitude)

\* C16: validation precedes aggregation. In handle.go's handleWeatherCall a
\* request whose lat or lon is missing, unparsable or out of range is
\* answered with 400 and FetchForecasts is never invoked for it.
C16_ValidationFirst ==
    (hvariant = "validate" /\ ~GoodCoordinates) =>
        /\ fetchArgs = <<>>
        /\ hpc = "done" => status = 400

\* the day counts 1..14 among the query strings
DaysInDocumentedRange ==
    /\ ~Atoi(query.days).err
    /\ 1 <= Atoi(query.days).v
    /\ Atoi(query.days).v <= 14

\* C17: forecast-window range. GET /weather accepts every integer days from
\* 1 to 14 and passes it unchanged to FetchForecasts, and uses 5 when days
\* is absent.
C17_DaysOneToFourteen ==
    (hvariant = "validate" /\ GoodCoordinates /\ hpc = "done"
        /\ (query.days = "" \/ DaysInDocumentedRange)) =>
        /\ status # 400
        /\ Len(fetchArgs) = 1
        /\ fetchArgs[1].forecastWindow =
              (IF query.days = "" THEN 5 ELSE Atoi(query.days).v)

\* the bound on the day count of the running handler
MaxWindow == IF hvariant = "validate" THEN maxForecastWindow ELSE maxForecastWindowInline

\* a days parameter that is present but no integer in [1, maxForecastWindow]
BadDays ==
    /\ query.days # ""
    /\ \/ Atoi(query.days).err
       \/ Atoi(query.days).v < 1
       \/ Atoi(query.days).v > MaxWindow

\* C18 as stated: in every variant a bad days parameter is rejected with a
\* client error and FetchForecasts is not invoked.
C18_BadDaysRejected ==
    (hvariant \in HandlerVariants /\ BadDays) =>
        /\ fetchArgs = <<>>
        /\ hpc = "done" => status = 400

\* C18 amended: handle.go's handler rejects a bad days parameter with 400
\* and does not invoke FetchForecasts; the inline handler, for good
\* coordinates, invokes FetchForecasts once with the default 5 instead.
C18_BadDaysRejectedOrDefault ==
    /\ (hvariant = "validate" /\ BadDays) =>
          /\ fetchArgs = <<>>
          /\ hpc = "done" => status = 400
    /\ (hvariant = "inline" /\ BadDays /\ GoodCoordinates /\ hpc # "recv") =>
          /\ Len(fetchArgs) = 1
          /\ fetchArgs[1].forecastWindow = defaultForecastWindow
          /\ hpc = "done" => status # 400

C18_Witness ==
    /\ hvariant = "validate"
    /\ BadDays
    /\ GoodCoordinates
    /\ query.days = "6"
    /\ hpc = "done"
    /\ status = 400

\* the samples all carry a date
AllParsable == \A k \in 1..Len(samples) : ~parseDate(samples[k].dt).err

\* the samples dated d
SamplesOf(d) == {k \in 1..Len(samples) : parseDate(samples[k].dt).day = d}

SampleDates == {parseDate(samples[k].dt).day : k \in 1..Len(samples)}

\* C19: reduction correctness. For every list of samples with parsable
\* dates, dailyTemperaturesWeatherAPI returns without error exactly one entry
\* for each calendar date D of the input, whose TempMin is the minimum
\* temp_min and whose TempMax is the maximum temp_max over the samples dated D.
C19_ReductionCorrect ==
    (rpc = "done" /\ AllParsable) =>
        /\ ~reduced.err
        /\ {reduced.temps[i].date : i \in 1..Len(reduced.temps)} = SampleDates
        /\ \A d \in SampleDates :
              /\ Cardinality({i \in 1..Len(reduced.temps) : reduced.temps[i].date = d}) = 1
              /\ \A i \in 1..Len(reduced.temps) :
                    reduced.temps[i].date = d =>
                        /\ \A k \in SamplesOf(d) :
                              /\ reduced.temps[i].tmin <= samples[k].tmin
                              /\ reduced.temps[i].tmax >= samples[k].tmax
                        /\ \E k \in SamplesOf(d) : reduced.temps[i].tmin = samples[k].tmin
                        /\ \E k \in SamplesOf(d) : reduced.temps[i].tmax = samples[k].tmax

\* three samples of one date, the least minimum and the greatest maximum
\* not in the first one
C19_Witness ==
    /\ rpc = "done"
    /\ AllParsable
    /\ Len(samples) = 3
    /\ Cardinality(SampleDates) = 1
    /\ samples[1].tmin = 2 /\ samples[3].tmin = 1
    /\ samples[1].tmax = 1 /\ samples[2].tmax = 2
    /\ reduced.temps = <<[date |-> 1, tmin |-> 1, tmax |-> 2]>>

C14_FailFastNoDo ==
    (akind \in AdapterKinds /\ ctx = "cancelled") =>
        /\ doCalls = 0
        /\ apc = "done" => aret.err

\* FetchForecast has returned after the upstream answered 200 with a JSON body
Answered ==
    /\ apc = "done"
    /\ upstream.response = "200"
    /\ ~(client.respectsCtx /\ ctx = "cancelled")

\* the date a record of the payload carries, 0 when it carries none
ItemDay(item) ==
    IF akind = "weatherapi" THEN parseDate(item.dt).day ELSE TimeParse(item.dt).day

\* every record of the payload carries a date and both its temperatures
WellFormed ==
    /\ Len(upstream.list) >= 1
    /\ upstream.tempLen = Len(upstream.list)
    /\ \A k \in 1..Len(upstream.list) : ItemDay(upstream.list[k]) # 0

\* the date of a returned day
DayOf(e) == IF "dateStr" \in DOMAIN e THEN TimeParse(e.dateStr).day ELSE e.date

\* the dates of the payload
PayloadDays == {ItemDay(upstream.list[k]) : k \in 1..Len(upstream.list)} \ {0}

\* C21: ascending order. The days returned by an adapter's FetchForecast are
\* sorted by strictly ascending date for every well-formed upstream payload,
\* also when its samples or daily entries arrive out of date order.
C21_AscendingDates ==
    (Answered /\ WellFormed /\ ~aret.err /\ ~aret.panic) =>
        \A i, j \in 1..Len(aret.data) :
            i < j => DayOf(aret.data[i]) < DayOf(aret.data[j])

\* C22: malformed-record filtering. Every day returned by an adapter's
\* FetchForecast has TempMax >= TempMin: a record with TempMax < TempMin is
\* dropped, and the call does not fail for it.
C22_MaxNotBelowMin ==
    (Answered /\ WellFormed) =>
        /\ ~aret.err
        /\ \A i \in 1..Len(aret.data) : aret.data[i].tmax >= aret.data[i].tmin

\* C23 as stated: zero usable days is an error. A FetchForecast that returns
\* without error returns at least one day.
C23_NoDaysIsError ==
    (apc = "done" /\ ~aret.err /\ ~aret.panic) => Len(aret.data) >= 1

\* the Open-Meteo adapters that drop the records with TempMax < TempMin
Filtering == akind \in {"open-meteo-inline", "open-meteo-build"}

\* every record the temperature arrays cover has its maximum below its minimum
AllInverted ==
    /\ upstream.tempLen >= 1
    /\ \A k \in 1..upstream.tempLen : upstream.list[k].tmax < upstream.list[k].tmin

\* C23 amended: in the filtering Open-Meteo adapters a 200 payload without
\* any time entry is an error, and a payload in which every record has
\* TempMax < TempMin gives a nil error and an empty result.
C23_EmptyPayloadIsError ==
    (Filtering /\ Answered) =>
        /\ Len(upstream.list) = 0 => aret.err
        /\ AllInverted => (~aret.err /\ aret.data = <<>>)

C23_Witness ==
    /\ akind = "open-meteo-inline"
    /\ Answered
    /\ Len(upstream.list) = 2
    /\ AllInverted
    /\ ~aret.err
    /\ aret.data = <<>>

\* C24: fewer days than requested. When a well-formed 200 payload reduces to
\* d distinct days with 1 <= d < forecastWindow, WeatherAPIRepository's
\* FetchForecast returns those d days with a nil error and does not panic.
C24_FewerDaysNoPanic ==
    (akind = "weatherapi" /\ Answered /\ WellFormed
        /\ Cardinality(PayloadDays) < window) =>
        /\ ~aret.panic
        /\ ~aret.err
        /\ Len(aret.data) = Cardinality(PayloadDays)
        /\ {DayOf(aret.data[i]) : i \in 1..Len(aret.data)} = PayloadDays

\* C25: truncation to the window. For every adapter and every well-formed
\* 200 payload FetchForecast returns at most forecastWindow days.
C25_AtMostWindow ==
    (Answered /\ WellFormed /\ ~aret.err /\ ~aret.panic) =>
        Len(aret.data) <= window

\* C26: unparsable dates are filtered, not fatal. When a 200 payload holds an
\* item whose dt_txt is no date, WeatherAPIRepository's FetchForecast returns
\* a nil error and a result without that item.
C26_BadDateOmitted ==
    (akind = "weatherapi" /\ Answered
        /\ \E k \in 1..Len(upstream.list) : ItemDay(upstream.list[k]) = 0) =>
        /\ ~aret.err
        /\ ~aret.panic
        /\ \A i \in 1..Len(aret.data) : DayOf(aret.data[i]) \in PayloadDays

\* C27: configuration precedence. After FileConfigProvider.Load every field
\* holds the value of its environment variable when that is set, otherwise
\* the value of the YAML file when the file sets it, otherwise its default.
C27_Precedence ==
    lpc = "done" =>
        \A f \in Fields :
            config[f] = (IF lookupEnv(EnvKey(f)).ok THEN lookupEnv(EnvKey(f)).value
                         ELSE IF yamlFile.keys[YamlKey(f)] # Unset
                              THEN yamlFile.keys[YamlKey(f)]
                         ELSE DefaultTag(f))

\* every goroutine of the channel variant has run to its end
AllFinished ==
    /\ Returned
    /\ closed
    /\ cpc = "done"
    /\ \A i \in Idx : gpc[i] = "done"

\* C28: the channel variant terminates without deadlock. Under every
\* interleaving every sender's send is received, the channel is closed, the
\* caller's range loop ends and FetchForecasts returns, and no goroutine
\* is left blocked.
C28_ChanTerminates == <>[]AllFinished

C28_Witness ==
    /\ variant = "chan"
    /\ N = 2
    /\ AllFinished
    /\ DOMAIN ret.m = NameSet

\* a provider goroutine that has passed its send
Sent(i) == gpc[i] \in {"exit", "done"}

\* C29: channel protocol safety. resultsChan is closed once, only after
\* every provider goroutine has completed its send and called wg.Done; no
\* goroutine is at its send when the channel is closed; each repository's
\* goroutine sends one message and never returns to its send; the results
\* map changes only while the calling goroutine is in its range loop, and
\* by the message received.
C29_ChanProtocol ==
    /\ [](cpc \in {"close", "done"} => (next = N /\ \A i \in Idx : gpc[i] = "done"))
    /\ [](closed <=> cpc = "done")
    /\ [](Returned => \A i \in Idx : calls[i] = 1 /\ gpc[i] = "done")
    /\ [][/\ closed => closed'
          /\ \A i \in Idx : Sent(i) => Sent(i)'
          /\ results' # results =>
                /\ mpc = "range"
                /\ \E i \in Idx :
                      /\ gpc[i] = "send"
                      /\ Sent(i)'
                      /\ results' = Put(results, Message(i).RepositoryName, Message(i))]_vars

C29_Witness ==
    /\ variant = "chan"
    /\ N = 2
    /\ closed
    /\ mpc = "range"
    /\ Cardinality(DOMAIN results) = 2

====
